---- MODULE Spec2Model ----
(***************************************************************************)
(* The Ollama client of code-minion (src/core/ollama_client.py): the       *)
(* transport operation generate, the structured-generation retry loop,     *)
(* and the two advisory operations is_available and list_models.           *)
(*                                                                         *)
(* Text is a sequence of tokens.  "W" is a whitespace character (a         *)
(* newline), "F" the three backticks of a markdown fence, "J" the letters  *)
(* json, "x" any other character; "{", "}", "[", "]" are themselves, "Q"   *)
(* is a double quote, "K" the member prefix "k": of an object and "N" the  *)
(* literal null.  A Python value is a record [type, val].                  *)
(***************************************************************************)
EXTENDS Integers, Sequences, FiniteSets

(* ------------------------------ bounds -------------------------------- *)

MaxAttempts == 3
MaxStrLen == 2
MaxModels == 2

(* --------------------------- Python values ---------------------------- *)

None == [type |-> "None", val |-> <<>>]
Str(s) == [type |-> "str", val |-> s]
Truthy(v) == v.type # "None" /\ v.val # <<>>

(* ------------------------------ strings ------------------------------- *)

RECURSIVE LStrip(_)
LStrip(s) == IF s # <<>> /\ Head(s) = "W" THEN LStrip(Tail(s)) ELSE s

RECURSIVE RStrip(_)
RStrip(s) ==
    IF s # <<>> /\ s[Len(s)] = "W" THEN RStrip(SubSeq(s, 1, Len(s) - 1)) ELSE s

\* str.strip()
Strip(s) == RStrip(LStrip(s))

\* str.startswith / str.endswith
StartsWith(s, p) == Len(s) >= Len(p) /\ SubSeq(s, 1, Len(p)) = p
EndsWith(s, p) == Len(s) >= Len(p) /\ SubSeq(s, Len(s) - Len(p) + 1, Len(s)) = p

\* str.find, 1-based; 0 when sep does not occur
Find(s, sep) ==
    LET idx == {i \in 1..(Len(s) - Len(sep) + 1) : SubSeq(s, i, i + Len(sep) - 1) = sep}
    IN  IF idx = {} THEN 0 ELSE CHOOSE i \in idx : \A j \in idx : i <= j

\* str.split(sep): the segments between the occurrences of sep, left to right
RECURSIVE Split(_, _)
Split(s, sep) ==
    LET i == Find(s, sep)
    IN  IF i = 0
        THEN <<s>>
        ELSE <<SubSeq(s, 1, i - 1)>> \o Split(SubSeq(s, i + Len(sep), Len(s)), sep)

FenceJson == <<"F", "J">>
Fence == <<"F">>

(* ------------------------------- JSON --------------------------------- *)

JSONDecodeError == [type |-> "JSONDecodeError", val |-> <<>>]

\* json.loads on the grammar of the model: {} | {"k": "<chars>"} | [] | null,
\* with surrounding whitespace allowed; a string holds no quote and no newline
JsonLoads(s) ==
    LET t == Strip(s)
        n == Len(t)
    IN  IF t = <<"{", "}">> THEN [type |-> "dict", val |-> <<>>]
        ELSE IF t = <<"[", "]">> THEN [type |-> "list", val |-> <<>>]
        ELSE IF t = <<"N">> THEN None
        ELSE IF /\ n >= 5
                /\ SubSeq(t, 1, 3) = <<"{", "K", "Q">>
                /\ SubSeq(t, n - 1, n) = <<"Q", "}">>
                /\ \A i \in 4..(n - 2) : t[i] \notin {"Q", "W"}
             THEN [type |-> "dict", val |-> <<"k">> \o SubSeq(t, 4, n - 2)]
        ELSE JSONDecodeError

\* CleanJson with the closing fence looked for anywhere in the text
CleanJsonAnyFence(response) ==
    LET s0 == Strip(response)
        s1 == IF StartsWith(s0, FenceJson) THEN Split(s0, FenceJson)[2] ELSE s0
        s2 == IF Find(s1, Fence) # 0 THEN Split(s1, Fence)[1] ELSE s1
    IN  Strip(s2)

\* lines 79-87: the text handed to json.loads
CleanJson(response) ==
    LET s0 == Strip(response)
        s1 == IF StartsWith(s0, FenceJson) THEN Split(s0, FenceJson)[2] ELSE s0
        s2 == IF EndsWith(s1, Fence) THEN Split(s1, Fence)[1] ELSE s1
    IN  Strip(s2)

(* --------------------------- the endpoint ----------------------------- *)

\* the characters of a JSON string that matter to the fence repair
StrChars == {"F", "J"}
StrBodies == UNION {[1..n -> StrChars] : n \in 0..MaxStrLen}

\* texts that are JSON
JsonTexts ==
    {<<"{", "}">>, <<"[", "]">>, <<"N">>}
        \cup {<<"{", "K", "Q">> \o b \o <<"Q", "}">> : b \in StrBodies}

\* texts that are not: empty, prose, a truncated object
MalformedTexts == {<<>>, <<"x">>, <<"{">>}

Padded(c) == <<"W">> \o c \o <<"W">>
Fenced(c) == <<"F", "J", "W">> \o c \o <<"W", "F">>
FencedForms(c) == {Fenced(c), Padded(Fenced(c))}

\* what the model may answer: JSON or not, bare, padded or fenced
ModelTexts ==
    UNION {{c, Padded(c)} \cup FencedForms(c) : c \in JsonTexts \cup MalformedTexts}

\* the statuses an endpoint may answer with: generate and list_models tell 4xx
\* and 5xx from the rest, is_available tells 200 from the rest
GenerateStatuses == {200, 304, 404, 500}
TagsStatuses == {200, 201, 304, 404, 500}
NetFailures == {"ConnectionError", "Timeout"}

NoBody == [kind |-> "none", text |-> <<>>, models |-> <<>>]

\* bodies of /api/generate: not JSON, JSON but no object, an object without the
\* response field, with a null one, with a text
GenerateBodies ==
    {[kind |-> k, text |-> <<>>, models |-> <<>>] : k \in {"notjson", "array", "nofield", "null"}}
        \cup {[kind |-> "text", text |-> t, models |-> <<>>] : t \in ModelTexts}

\* a model descriptor of /api/tags: its name, or "" when it has no name field
Descriptors == {"a", "b", ""}
TagsBodies ==
    {[kind |-> k, text |-> <<>>, models |-> <<>>] : k \in {"notjson", "array", "nofield"}}
        \cup {[kind |-> "models", text |-> <<>>, models |-> m] :
                m \in UNION {[1..n -> Descriptors] : n \in 0..MaxModels}}

\* requests.Response.raise_for_status: HTTPError on 4xx and 5xx
RaisesForStatus(status) == 400 <= status /\ status < 600

\* one request/response exchange: the connection fails, or a status line comes
\* back, with a body unless the status is an error
Exchanges(statuses, bodies) ==
    {[net |-> f, status |-> 0, body |-> NoBody] : f \in NetFailures}
        \cup {[net |-> "ok", status |-> s, body |-> NoBody] :
                s \in {x \in statuses : RaisesForStatus(x)}}
        \cup {[net |-> "ok", status |-> s, body |-> b] :
                s \in {x \in statuses : ~RaisesForStatus(x)}, b \in bodies}

GenerateExchanges == Exchanges(GenerateStatuses, GenerateBodies)
TagsExchanges == Exchanges(TagsStatuses, TagsBodies)
NoExchange == [net |-> "none", status |-> 0, body |-> NoBody]

\* Classification of an exchange for the history variable malformed; no
\* operation of the client reads it.
\* the exchange came back with a text (an absent field is the empty text)
DeliversText(ex) ==
    ex.net = "ok" /\ ~RaisesForStatus(ex.status) /\ ex.body.kind \in {"text", "nofield"}

\* the endpoint's output is malformed: neither JSON nor JSON in a fence
MalformedForms ==
    UNION {{c, Padded(c)} \cup FencedForms(c) : c \in MalformedTexts}
MalformedOutput(ex) ==
    DeliversText(ex) /\ (ex.body.kind = "nofield" \/ ex.body.text \in MalformedForms)

(* ----------------------------- the client ----------------------------- *)

VARIABLES
    op,             \* the operation the caller invoked last
    pc,             \* "idle", "loop" (inside structured_generation), "returned", "raised"
    args,           \* the arguments of that call
    system_prompt,  \* structured_generation's local, after defaulting
    full_prompt,    \* structured_generation's local
    attempt,        \* the loop variable
    response,       \* structured_generation's local: the last text generate returned
    ret,            \* the value returned to the caller
    exc,            \* the exception that reached the caller, or "none"
    diagnostic,     \* what "Raw response: ..." printed, or NoDiagnostic
    sent,           \* the payloads posted to /api/generate during the call
    calls,          \* the HTTP requests made during the call
    malformed,      \* the attempts of the call whose returned text failed to parse
    last_ex         \* the latest exchange with the endpoint

vars == <<op, pc, args, system_prompt, full_prompt, attempt, response, ret, exc,
          diagnostic, sent, calls, malformed, last_ex>>

DefaultModel == "codegemma:7b"
DefaultTemperature == "0.2"
DefaultMaxTokens == 2048

DefaultSystemPrompt == Str(<<"You are a code analysis assistant.">>)
Absent == [type |-> "absent", val |-> <<>>]
NoDiagnostic == [type |-> "nothing", val |-> <<>>]
Bool(b) == [type |-> "bool", val |-> IF b THEN <<"True">> ELSE <<"False">>]

Prompts == {<<"classify this snippet">>}
Formats == {<<"severity", "message">>}
SystemPrompts == {None, Str(<<>>), Str(<<"be terse">>)}
AttemptBudgets == -1..MaxAttempts

NoArgs == [prompt |-> <<>>, output_format |-> <<>>, system_prompt |-> None, max_attempts |-> 0]

\* lines 28-37: the request payload
Payload(prompt, sp) ==
    [model |-> DefaultModel,
     prompt |-> prompt,
     temperature |-> DefaultTemperature,
     max_tokens |-> DefaultMaxTokens,
     stream |-> FALSE,
     system_prompt |-> IF Truthy(sp) THEN sp ELSE Absent]

\* requests.exceptions.RequestException and its subclasses; the JSONDecodeError
\* that Response.json() raises is one of them and a json.JSONDecodeError too
RequestExceptions == {"ConnectionError", "Timeout", "HTTPError", "requests.JSONDecodeError"}
JsonDecodeErrors == {"json.JSONDecodeError", "requests.JSONDecodeError"}

\* lines 39-51: what generate does with one exchange
Generate(prompt, sp, ex) ==
    LET raise(e) == [payload |-> Payload(prompt, sp), exc |-> e, value |-> None]
        return(v) == [payload |-> Payload(prompt, sp), exc |-> "none", value |-> v]
    IN  IF ex.net # "ok" THEN raise(ex.net)
        ELSE IF RaisesForStatus(ex.status) THEN raise("HTTPError")
        ELSE IF ex.body.kind = "notjson" THEN raise("requests.JSONDecodeError")
        ELSE IF ex.body.kind = "array" THEN raise("AttributeError")
        ELSE IF ex.body.kind = "nofield" THEN return(Str(<<>>))
        ELSE IF ex.body.kind = "null" THEN return(None)
        ELSE return(Str(ex.body.text))

\* lines 62-66
EffectiveSystemPrompt(sp) == IF sp = None THEN DefaultSystemPrompt ELSE sp

\* lines 68-71
FormatInstructions(output_format) ==
    <<"Your response should be a valid JSON that confirm to this structure: ">>
        \o output_format
        \o <<"\nDo not include any explanations, only output the JSON object">>

\* FullPrompt without the blank line
FullPromptNoSeparator(prompt, output_format) ==
    prompt \o FormatInstructions(output_format)

\* line 73
FullPrompt(prompt, output_format) ==
    prompt \o <<"\n\n">> \o FormatInstructions(output_format)

\* IsFinalAttempt off by one
IsFinalAttemptOffByOne(att, max) == att = max

\* line 90
IsFinalAttempt(att, max) == att = max - 1

\* lines 89-94: the handler of json.JSONDecodeError; resp is the local response
OnDecodeError(resp, att, max) ==
    IF IsFinalAttempt(att, max)
    THEN [kind |-> "raise", response |-> resp, value |-> None,
          exc |-> "json.JSONDecodeError", diagnostic |-> resp]
    ELSE [kind |-> "retry", response |-> resp, value |-> None,
          exc |-> "none", diagnostic |-> NoDiagnostic]

\* lines 77-94: one iteration of the loop
AttemptBody(fp, sp, resp, att, max, ex) ==
    LET g == Generate(fp, sp, ex)
        parsed == JsonLoads(CleanJson(g.value.val))
    IN  IF g.exc \in JsonDecodeErrors
        THEN [OnDecodeError(resp, att, max) EXCEPT
                !.exc = IF @ = "none" THEN @ ELSE g.exc]
        ELSE IF g.exc # "none"
        THEN [kind |-> "raise", response |-> resp, value |-> None,
              exc |-> g.exc, diagnostic |-> NoDiagnostic]
        ELSE IF g.value.type # "str"
        THEN [kind |-> "raise", response |-> g.value, value |-> None,
              exc |-> "AttributeError", diagnostic |-> NoDiagnostic]
        ELSE IF parsed # JSONDecodeError
        THEN [kind |-> "return", response |-> g.value, value |-> parsed,
              exc |-> "none", diagnostic |-> NoDiagnostic]
        ELSE OnDecodeError(g.value, att, max)

\* lines 96-102
IsAvailableResult(ex) ==
    IF ex.net # "ok" THEN Bool(FALSE) ELSE Bool(ex.status = 200)

ModelName(d) == IF d = "" THEN "None" ELSE d

\* lines 104-113
ListModelsResult(ex) ==
    LET return(v) == [exc |-> "none", value |-> [type |-> "list", val |-> v]]
    IN  IF ex.net # "ok" THEN return(<<>>)
        ELSE IF RaisesForStatus(ex.status) THEN return(<<>>)
        ELSE IF ex.body.kind = "notjson" THEN return(<<>>)
        ELSE IF ex.body.kind = "array" THEN [exc |-> "AttributeError", value |-> None]
        ELSE IF ex.body.kind = "nofield" THEN return(<<>>)
        ELSE return([i \in 1..Len(ex.body.models) |-> ModelName(ex.body.models[i])])

(* ----------------------------- behaviour ------------------------------ *)

Init ==
    /\ op = "none"
    /\ pc = "idle"
    /\ args = NoArgs
    /\ system_prompt = None
    /\ full_prompt = <<>>
    /\ attempt = 0
    /\ response = None
    /\ ret = None
    /\ exc = "none"
    /\ diagnostic = NoDiagnostic
    /\ sent = {}
    /\ calls = 0
    /\ malformed = 0
    /\ last_ex = NoExchange

\* a caller invokes generate(prompt, system_prompt)
CallGenerate(p, sp, ex) ==
    \E g \in {Generate(p, sp, ex)} :
        /\ pc = "idle"
        /\ op' = "generate"
        /\ args' = [prompt |-> p, output_format |-> <<>>, system_prompt |-> sp,
                    max_attempts |-> 0]
        /\ pc' = IF g.exc = "none" THEN "returned" ELSE "raised"
        /\ ret' = g.value
        /\ exc' = g.exc
        /\ sent' = {g.payload}
        /\ calls' = 1
        /\ last_ex' = ex
        /\ system_prompt' = None
        /\ full_prompt' = <<>>
        /\ attempt' = 0
        /\ response' = None
        /\ diagnostic' = NoDiagnostic
        /\ malformed' = 0

\* a caller invokes structured_generation: lines 62-75
CallStructuredGeneration(p, fmt, sp, max) ==
    /\ pc = "idle"
    /\ op' = "structured_generation"
    /\ args' = [prompt |-> p, output_format |-> fmt, system_prompt |-> sp,
                max_attempts |-> max]
    /\ system_prompt' = EffectiveSystemPrompt(sp)
    /\ full_prompt' = FullPrompt(p, fmt)
    /\ response' = None
    /\ attempt' = 0
    /\ pc' = "loop"
    /\ ret' = None
    /\ exc' = "none"
    /\ diagnostic' = NoDiagnostic
    /\ sent' = {}
    /\ calls' = 0
    /\ malformed' = 0
    /\ last_ex' = NoExchange

\* one iteration of the loop of structured_generation
Attempt(ex) ==
    /\ pc = "loop"
    /\ attempt < args.max_attempts
    /\ \E r \in {AttemptBody(full_prompt, system_prompt, response, attempt,
                              args.max_attempts, ex)} :
        /\ response' = r.response
        /\ pc' = IF r.kind = "retry" THEN "loop"
                 ELSE IF r.kind = "return" THEN "returned" ELSE "raised"
        /\ attempt' = IF r.kind = "retry" THEN attempt + 1 ELSE attempt
        /\ ret' = r.value
        /\ exc' = r.exc
        /\ diagnostic' = r.diagnostic
    /\ sent' = sent \cup {Payload(full_prompt, system_prompt)}
    /\ calls' = calls + 1
    /\ malformed' = IF MalformedOutput(ex) THEN malformed + 1 ELSE malformed
    /\ last_ex' = ex
    /\ UNCHANGED <<op, args, system_prompt, full_prompt>>

\* the loop ends without a return or a raise: the function returns None
LoopExit ==
    /\ pc = "loop"
    /\ attempt >= args.max_attempts
    /\ pc' = "returned"
    /\ ret' = None
    /\ UNCHANGED <<op, args, system_prompt, full_prompt, attempt, response, exc,
                   diagnostic, sent, calls, malformed, last_ex>>

\* a caller invokes is_available
CallIsAvailable(ex) ==
    /\ pc = "idle"
    /\ op' = "is_available"
    /\ args' = NoArgs
    /\ pc' = "returned"
    /\ ret' = IsAvailableResult(ex)
    /\ exc' = "none"
    /\ calls' = 1
    /\ last_ex' = ex
    /\ sent' = {}
    /\ system_prompt' = None
    /\ full_prompt' = <<>>
    /\ attempt' = 0
    /\ response' = None
    /\ diagnostic' = NoDiagnostic
    /\ malformed' = 0

\* a caller invokes list_models
CallListModels(ex) ==
    \E r \in {ListModelsResult(ex)} :
        /\ pc = "idle"
        /\ op' = "list_models"
        /\ args' = NoArgs
        /\ pc' = IF r.exc = "none" THEN "returned" ELSE "raised"
        /\ ret' = r.value
        /\ exc' = r.exc
        /\ calls' = 1
        /\ last_ex' = ex
        /\ sent' = {}
        /\ system_prompt' = None
        /\ full_prompt' = <<>>
        /\ attempt' = 0
        /\ response' = None
        /\ diagnostic' = NoDiagnostic
        /\ malformed' = 0

\* the caller has its result (or its exception); the client keeps no state
Return ==
    /\ pc \in {"returned", "raised"}
    /\ op' = "none"
    /\ pc' = "idle"
    /\ args' = NoArgs
    /\ system_prompt' = None
    /\ full_prompt' = <<>>
    /\ attempt' = 0
    /\ response' = None
    /\ ret' = None
    /\ exc' = "none"
    /\ diagnostic' = NoDiagnostic
    /\ sent' = {}
    /\ calls' = 0
    /\ malformed' = 0
    /\ last_ex' = NoExchange

Next ==
    \/ \E p \in Prompts, sp \in SystemPrompts, ex \in GenerateExchanges :
            CallGenerate(p, sp, ex)
    \/ \E p \in Prompts, fmt \in Formats, sp \in SystemPrompts, max \in AttemptBudgets :
            CallStructuredGeneration(p, fmt, sp, max)
    \/ \E ex \in GenerateExchanges : Attempt(ex)
    \/ LoopExit
    \/ \E ex \in TagsExchanges : CallIsAvailable(ex)
    \/ \E ex \in TagsExchanges : CallListModels(ex)
    \/ Return

Spec == Init /\ [][Next]_vars

(* ------------------------------ claims -------------------------------- *)

InStructured == op = "structured_generation"

\* the text of an exchange that delivers one
RawText(ex) == IF ex.body.kind = "text" THEN ex.body.text ELSE <<>>

\* the endpoint's output is JSON, bare or with whitespace around it
ValidJsonOutput(ex) ==
    DeliversText(ex) /\ ex.body.kind = "text" /\ Strip(ex.body.text) \in JsonTexts

\* the attempt that made the exchange ended in the handler of json.JSONDecodeError
EndedInDecodeError(ex) ==
    \/ ex.net = "ok" /\ ~RaisesForStatus(ex.status) /\ ex.body.kind = "notjson"
    \/ DeliversText(ex) /\ JsonLoads(CleanJson(RawText(ex))) = JSONDecodeError

Is2xx(status) == 200 <= status /\ status < 300

\* C1: with max_attempts >= 1, when the first k-1 outputs are malformed and the
\* k-th is valid JSON, structured_generation returns after exactly k calls the
\* value parsed from the k-th text, and makes no call after that.
C1_ReturnsAtFirstValid ==
    /\ [](InStructured /\ args.max_attempts >= 1 /\ ValidJsonOutput(last_ex)
            /\ malformed = calls - 1
          => /\ pc = "returned"
             /\ exc = "none"
             /\ ret = JsonLoads(last_ex.body.text)
             /\ calls <= args.max_attempts)
    /\ [][InStructured /\ pc = "returned" => calls' = calls \/ pc' = "idle"]_vars

C1_Witness ==
    /\ InStructured
    /\ args.max_attempts = 3
    /\ pc = "returned"
    /\ calls = 3
    /\ malformed = 2
    /\ ValidJsonOutput(last_ex)
    /\ ret.type = "dict"

C3_TransportFailurePropagates ==
    InStructured /\ calls >= 1
        /\ Generate(full_prompt, system_prompt, last_ex).exc \in RequestExceptions
    => /\ pc = "raised"
       /\ exc = Generate(full_prompt, system_prompt, last_ex).exc

\* C4: a structured_generation call that has returned has returned a JSON object,
\* whatever max_attempts and whatever the endpoint answered.
C4_ReturnsMappingOrRaises ==
    InStructured /\ pc = "returned" => ret.type = "dict"

\* C5: when the endpoint answers a JSON text C inside a json fence, with optional
\* whitespace around it, structured_generation returns what parsing C gives.
C5_FenceStripped ==
    InStructured /\ calls >= 1 /\ last_ex.net = "ok" /\ last_ex.body.kind = "text"
        /\ ~RaisesForStatus(last_ex.status)
    => \A c \in JsonTexts :
           last_ex.body.text \in FencedForms(c)
           => pc = "returned" /\ ret = JsonLoads(c)

\* C6: is_available never raises, answers false when the endpoint is unreachable
\* and true whenever the probe is answered with a 2xx status.
C6_AvailableOnAny2xx ==
    op = "is_available"
    => /\ pc = "returned"
       /\ exc = "none"
       /\ last_ex.net # "ok" => ret = Bool(FALSE)
       /\ last_ex.net = "ok" /\ Is2xx(last_ex.status) => ret = Bool(TRUE)

\* the exchange failed at the transport level: no connection, no answer in time,
\* a status outside 2xx, or a body that is no JSON object
TransportLevelFailure(ex) ==
    \/ ex.net # "ok"
    \/ ~Is2xx(ex.status)
    \/ ex.body.kind \in {"notjson", "array"}

\* C7: generate raises exactly when the exchange fails at the transport level,
\* makes one request either way, and otherwise returns the string of the body's
\* response field, the empty string when the field is absent.
C7_GenerateRaisesIffTransportFails ==
    op = "generate"
    => /\ calls = 1
       /\ exc # "none" <=> TransportLevelFailure(last_ex)
       /\ exc = "none" => pc = "returned" /\ ret = Str(RawText(last_ex))

\* C8: list_models never raises, returns the empty sequence when the connection
\* fails or the status is not 2xx, and the listed names in order on success.
C8_ListModelsNeverRaises ==
    op = "list_models"
    => /\ pc = "returned"
       /\ exc = "none"
       /\ last_ex.net # "ok" \/ ~Is2xx(last_ex.status)
            => ret = [type |-> "list", val |-> <<>>]
       /\ last_ex.net = "ok" /\ Is2xx(last_ex.status) /\ last_ex.body.kind = "models"
            => ret = [type |-> "list",
                      val |-> [i \in 1..Len(last_ex.body.models) |->
                                 ModelName(last_ex.body.models[i])]]

\* C9: all the requests of one structured_generation call carry the same payload,
\* whose prompt is the caller's prompt, a blank line and the format instructions;
\* a request is made only after every earlier attempt ended in a parse failure.
C9_SameRequestEachAttempt ==
    InStructured
    => /\ Cardinality(sent) <= 1
       /\ \A p \in sent :
            p.prompt = args.prompt \o <<"\n\n">> \o FormatInstructions(args.output_format)
       /\ pc = "loop" => calls = attempt /\ (calls >= 1 => EndedInDecodeError(last_ex))
       /\ pc # "loop" => calls <= attempt + 1

C9_Witness ==
    /\ InStructured
    /\ calls = 3
    /\ attempt = 2
    /\ Cardinality(sent) = 1

\* C10: every payload of a structured_generation call carries a system prompt:
\* the caller's when one was supplied, the empty string included, and the
\* default instruction when none was.
C10_SystemPromptAlwaysSent ==
    InStructured
    => \A p \in sent :
         p.system_prompt = IF args.system_prompt = None
                           THEN DefaultSystemPrompt
                           ELSE args.system_prompt

====
